---- MODULE Spec2Model ----
(***************************************************************************)
(* Model of the Amp debug-log parser (parse_amp_debug_logs) and of the     *)
(* thread-id extractor (extract_thread_id) of src/test-amp-debug-parsing.py *)
(* (duplicated in src/scripts/test/test-debug-log-parsing.py).             *)
(*                                                                         *)
(* A log file is a finite sequence of raw lines.  json.loads of a raw line *)
(* is abstracted to its outcome: a raw line is either Invalid (json.loads  *)
(* raises JSONDecodeError, which covers blank lines) or the JSON value it  *)
(* decodes to.  JSON values are tagged records:                            *)
(*   [t |-> "null"], [t |-> "num", n], [t |-> "str", s], [t |-> "list",    *)
(*   items], [t |-> "obj", d]  with d a function from keys to JSON values. *)
(* A string whose text is itself JSON carries its decoding in the extra    *)
(* field "loads" (the outcome of json.loads on the nested payload).        *)
(* Python's None is [t |-> "null"]; a Python dict is a function, the empty *)
(* dict being << >>; the insertion-ordered dict `pending` is a sequence of *)
(* [k, v] entries with distinct keys.                                       *)
(***************************************************************************)
EXTENDS Integers, Sequences, FiniteSets, TLC

VARIABLES
    log,          \* the lines of the file at log_path
    readable,     \* whether open(log_path) succeeds
    pc,           \* parse_amp_debug_logs: "open", "scan", "flush", "returned"
    pos,          \* parse_amp_debug_logs: number of lines read from fp
    pending,      \* parse_amp_debug_logs: pending (insertion-ordered dict)
    tool_calls,   \* parse_amp_debug_logs: tool_calls
    token_usage,  \* parse_amp_debug_logs: token_usage
    perf,         \* parse_amp_debug_logs: perf
    xpc,          \* extract_thread_id: "open", "scan", "returned"
    xpos,         \* extract_thread_id: number of lines read from fp
    thread_id,    \* extract_thread_id: the returned value (None until then)
    sort          \* bubble_sort: its position pc, the list given, and the
                  \* locals arr, n, i, j

vars == <<log, readable, pc, pos, pending, tool_calls, token_usage, perf,
          xpc, xpos, thread_id, sort>>

parseVars == <<pc, pos, pending, tool_calls, token_usage, perf>>
extractVars == <<xpc, xpos, thread_id>>

\* Longest log file explored.
MaxLen == 3

\* bubble_sort is not running
SortIdle == [pc |-> "idle", given |-> << >>, arr |-> << >>, n |-> 0, i |-> 0,
             j |-> 0]

-----------------------------------------------------------------------------
(* JSON values *)

JNull == [t |-> "null"]
JNum(n) == [t |-> "num", n |-> n]
JStr(s) == [t |-> "str", s |-> s]
JStrJson(s, p) == [t |-> "str", s |-> s, loads |-> p]
JList(items) == [t |-> "list", items |-> items]
JObj(d) == [t |-> "obj", d |-> d]
Invalid == [t |-> "invalid"]
EmptyDict == << >>

\* d.get(k): None when the key is missing
Get(d, k) == IF k \in DOMAIN d THEN d[k] ELSE JNull

\* d.get(k, default)
GetDefault(d, k, default) == IF k \in DOMAIN d THEN d[k] ELSE default

\* Python truth value of a decoded JSON value
Truthy(v) ==
    CASE v.t = "null" -> FALSE
      [] v.t = "num"  -> v.n # 0
      [] v.t = "str"  -> v.s # ""
      [] v.t = "list" -> v.items # << >>
      [] v.t = "obj"  -> DOMAIN v.d # {}
      [] OTHER        -> FALSE

\* whether Python can hash the value (lists and dicts cannot be dict keys)
Hashable(v) == v.t \notin {"list", "obj"}

-----------------------------------------------------------------------------
(* str methods used by the parser *)

Whitespace == {" ", "\t", "\n", "\r", "\f"}

CharAt(s, i) == SubSeq(s, i, i)

\* message.split(",")[0]: the text before the first comma (all of it if none)
FirstSegment(s) ==
    LET commas == {i \in 1..Len(s) : CharAt(s, i) = ","}
    IN  IF commas = {} THEN s
        ELSE LET c == CHOOSE i \in commas : \A q \in commas : i <= q
             IN  SubSeq(s, 1, c - 1)

\* str.strip(): drop leading and trailing whitespace
Strip(s) ==
    LET solid == {i \in 1..Len(s) : CharAt(s, i) \notin Whitespace}
    IN  IF solid = {} THEN ""
        ELSE LET lo == CHOOSE i \in solid : \A q \in solid : i <= q
                 hi == CHOOSE i \in solid : \A q \in solid : q <= i
             IN  SubSeq(s, lo, hi)

\* the first segment taken as it stands, without strip()
ToolIdOf_Untrimmed(message) == FirstSegment(message)

\* tool_id = message.split(",")[0].strip()
ToolIdOf(message) == Strip(FirstSegment(message))

-----------------------------------------------------------------------------
(* the insertion-ordered dict `pending` *)

DictKeys(d) == {d[i].k : i \in 1..Len(d)}

DictHas(d, k) == k \in DictKeys(d)

DictIndex(d, k) == CHOOSE i \in 1..Len(d) : d[i].k = k

DictGet(d, k) == d[DictIndex(d, k)].v

\* DictSet that re-inserts an existing key at the end (delete, then insert)
DictSet_MovesToEnd(d, k, v) ==
    Append(SelectSeq(d, LAMBDA e : e.k # k), [k |-> k, v |-> v])

\* d[k] = v: a new key goes last, an existing key keeps its place
DictSet(d, k, v) ==
    IF DictHas(d, k)
    THEN [d EXCEPT ![DictIndex(d, k)] = [k |-> k, v |-> v]]
    ELSE Append(d, [k |-> k, v |-> v])

\* what is left of d after d.pop(k)
DictRemove(d, k) ==
    LET i == DictIndex(d, k)
    IN  SubSeq(d, 1, i - 1) \o SubSeq(d, i + 1, Len(d))

\* list(d.values())
DictValues(d) == [i \in 1..Len(d) |-> d[i].v]

\* rec[key] = value on a record (a Python dict with string keys)
RecSet(rec, key, value) ==
    [f \in DOMAIN rec \cup {key} |-> IF f = key THEN value ELSE rec[f]]

-----------------------------------------------------------------------------
(* parse_amp_debug_logs: the body of the loop over the lines *)

PerfKeys == {"inferenceDuration", "tokensPerSecond", "outputTokens"}

\* lines 41-45: replace token_usage when the object has both token keys
TokenUsageStep(j, tu) ==
    IF "input_tokens" \in DOMAIN j /\ "output_tokens" \in DOMAIN j
    THEN [input_tokens |-> j["input_tokens"],
          output_tokens |-> j["output_tokens"]]
    ELSE tu

\* PerfStep that adds the line's perf keys to those already held
PerfStep_MergesKeys(j, pf) ==
    IF "inferenceDuration" \in DOMAIN j
    THEN [k \in (PerfKeys \cap DOMAIN j) \cup DOMAIN pf |->
              IF k \in DOMAIN j THEN j[k] ELSE pf[k]]
    ELSE pf

\* lines 48-51: replace perf by the perf keys the object has
PerfStep(j, pf) ==
    IF "inferenceDuration" \in DOMAIN j
    THEN [k \in PerfKeys \cap DOMAIN j |-> j[k]]
    ELSE pf

\* line 55
IsInvoke(j) == Get(j, "name") = JStr("invokeTool")

\* line 62
IsCall(j) == Get(j, "name") \in {JStr("toolCall"), JStr("toolCallCompleted")}

\* line 57 raises AttributeError when message is not a str
InvokeRaises(j) == IsInvoke(j) /\ GetDefault(j, "message", JStr("")).t # "str"

\* lines 56-58: pending[tool_id] = {"tool_id": tool_id}
InvokeStep(j, pend) ==
    LET message == GetDefault(j, "message", JStr(""))
        tool_id == ToolIdOf(message.s)
    IN  DictSet(pend, tool_id, [tool_id |-> tool_id])

\* line 64: json.loads(j["message"]) returns (no KeyError, TypeError or
\* JSONDecodeError)
PayloadLoads(j) ==
    /\ "message" \in DOMAIN j
    /\ j["message"].t = "str"
    /\ "loads" \in DOMAIN j["message"]

\* line 65: payload.get("toolId") or payload.get("id")
CallId(payload) ==
    IF Truthy(Get(payload, "toolId"))
    THEN Get(payload, "toolId")
    ELSE Get(payload, "id")

\* lines 64-66: the call event reaches the body of the `if` with this payload
\* (a payload that is not a dict raises AttributeError at line 65, an
\* unhashable id raises TypeError at line 66; both are swallowed at line 70)
CallMatches(j, pend) ==
    /\ PayloadLoads(j)
    /\ j["message"].loads.t = "obj"
    /\ LET t_id == CallId(j["message"].loads.d)
       IN  /\ Truthy(t_id)
           /\ Hashable(t_id)
           /\ t_id.t = "str"
           /\ DictHas(pend, t_id.s)

\* CompletedEntry without the defaults of lines 67-68: a key missing from the
\* payload is stored as None
CompletedEntry_NoDefaults(payload, entry) ==
    RecSet(RecSet(entry, "name", Get(payload, "name")),
           "arguments", Get(payload, "arguments"))

\* lines 67-68: the pending entry with name and arguments filled in
CompletedEntry(payload, entry) ==
    RecSet(RecSet(entry, "name", GetDefault(payload, "name", JStr("unknown"))),
           "arguments", GetDefault(payload, "arguments", JObj(EmptyDict)))

\* CallStep that records a call event it cannot match as a call of its own
CallStep_AddsUnmatched(j, pend, calls) ==
    IF CallMatches(j, pend)
    THEN LET payload == j["message"].loads.d
             t_id == CallId(payload).s
         IN  [pending |-> DictRemove(pend, t_id),
              tool_calls |->
                  Append(calls, CompletedEntry(payload, DictGet(pend, t_id)))]
    ELSE [pending |-> pend, tool_calls |-> Append(calls, [tool_id |-> ""])]

\* CallStep with the pop of line 69 left out: the record is appended but its
\* entry stays in pending
CallStep_KeepsPending(j, pend, calls) ==
    IF CallMatches(j, pend)
    THEN LET payload == j["message"].loads.d
             t_id == CallId(payload).s
         IN  [pending |-> pend,
              tool_calls |->
                  Append(calls, CompletedEntry(payload, DictGet(pend, t_id)))]
    ELSE [pending |-> pend, tool_calls |-> calls]

\* CallStep that lets a call event for an id no longer pending fill in the
\* last record of that id again
CallStep_CompletesAgain(j, pend, calls) ==
    IF CallMatches(j, pend)
    THEN LET payload == j["message"].loads.d
             t_id == CallId(payload).s
         IN  [pending |-> DictRemove(pend, t_id),
              tool_calls |->
                  Append(calls, CompletedEntry(payload, DictGet(pend, t_id)))]
    ELSE IF /\ PayloadLoads(j)
            /\ j["message"].loads.t = "obj"
            /\ CallId(j["message"].loads.d).t = "str"
            /\ \E q \in 1..Len(calls) :
                   calls[q].tool_id = CallId(j["message"].loads.d).s
    THEN LET payload == j["message"].loads.d
             t_id == CallId(payload).s
             last == CHOOSE q \in 1..Len(calls) :
                         /\ calls[q].tool_id = t_id
                         /\ \A r \in (q + 1)..Len(calls) :
                                calls[r].tool_id # t_id
         IN  [pending |-> pend,
              tool_calls |->
                  [calls EXCEPT
                     ![last] = CompletedEntry(payload, [tool_id |-> t_id])]]
    ELSE [pending |-> pend, tool_calls |-> calls]

\* lines 63-71: the effect of a call event on pending and tool_calls
CallStep(j, pend, calls) ==
    IF CallMatches(j, pend)
    THEN LET payload == j["message"].loads.d
             t_id == CallId(payload).s
         IN  [pending |-> DictRemove(pend, t_id),
              tool_calls |->
                  Append(calls, CompletedEntry(payload, DictGet(pend, t_id)))]
    ELSE [pending |-> pend, tool_calls |-> calls]

\* LineStep with the JSONDecodeError of line 37 left uncaught by the inner
\* handler: an invalid line ends the scan
LineStep_InvalidLineRaises(st, raw) ==
    IF raw.t # "obj" THEN [st EXCEPT !.raised = TRUE]
    ELSE LET j == raw.d
             tu == TokenUsageStep(j, st.token_usage)
             pf == PerfStep(j, st.perf)
         IN  IF InvokeRaises(j)
             THEN [st EXCEPT !.token_usage = tu, !.perf = pf, !.raised = TRUE]
             ELSE LET pend == IF IsInvoke(j) THEN InvokeStep(j, st.pending)
                                             ELSE st.pending
                      done == IF IsCall(j)
                              THEN CallStep(j, pend, st.tool_calls)
                              ELSE [pending |-> pend,
                                    tool_calls |-> st.tool_calls]
                  IN  [pending |-> done.pending,
                       tool_calls |-> done.tool_calls,
                       token_usage |-> tu,
                       perf |-> pf,
                       raised |-> FALSE]

\* lines 35-71: one iteration of `for raw in fp` on the state st; raised is
\* set when an exception leaves the loop for the handler at line 72.
\* A decoded value that is not a dict always raises before any assignment:
\* None, numbers and booleans at the `in` of line 41 (TypeError); strings and
\* lists at the subscript of line 43 or 49 when the `in` tests succeed
\* (TypeError) and at j.get of line 55 otherwise (AttributeError).
LineStep(st, raw) ==
    IF raw.t = "invalid" THEN st
    ELSE IF raw.t # "obj" THEN [st EXCEPT !.raised = TRUE]
    ELSE LET j == raw.d
             tu == TokenUsageStep(j, st.token_usage)
             pf == PerfStep(j, st.perf)
         IN  IF InvokeRaises(j)
             THEN [st EXCEPT !.token_usage = tu, !.perf = pf, !.raised = TRUE]
             ELSE LET pend == IF IsInvoke(j) THEN InvokeStep(j, st.pending)
                                             ELSE st.pending
                      done == IF IsCall(j)
                              THEN CallStep(j, pend, st.tool_calls)
                              ELSE [pending |-> pend,
                                    tool_calls |-> st.tool_calls]
                  IN  [pending |-> done.pending,
                       tool_calls |-> done.tool_calls,
                       token_usage |-> tu,
                       perf |-> pf,
                       raised |-> FALSE]

\* lines 25-30: the locals before the file is opened
InitialState ==
    [pending |-> << >>, tool_calls |-> << >>, token_usage |-> EmptyDict,
     perf |-> EmptyDict, raised |-> FALSE]

\* the return forgets the calls that were never completed
FlushCalls_DropsPending(calls, pend) == calls

\* line 76: tool_calls.extend(pending.values())
FlushCalls(calls, pend) == calls \o DictValues(pend)

RECURSIVE ScanLines(_, _)
\* lines 34-71 over a whole file: the loop stops at the first exception
ScanLines(st, lines) ==
    IF lines = << >> \/ st.raised THEN st
    ELSE ScanLines(LineStep(st, Head(lines)), Tail(lines))

\* lines 23-82: the value parse_amp_debug_logs returns for a readable file
ParseResult(lines) ==
    LET st == ScanLines(InitialState, lines)
    IN  [tool_calls |-> FlushCalls(st.tool_calls, st.pending),
         token_usage |-> st.token_usage,
         perf |-> st.perf]

-----------------------------------------------------------------------------
(* the log lines explored *)

\* {"name":"invokeTool","message":" a , invoking tool"}
InvokeA ==
    JObj([name |-> JStr("invokeTool"), message |-> JStr(" a , invoking tool")])

\* {"name":"invokeTool","message":"b"}
InvokeB == JObj([name |-> JStr("invokeTool"), message |-> JStr("b")])

\* {"name":"invokeTool"}: the default message "" gives the tool_id ""
InvokeNoMessage == JObj([name |-> JStr("invokeTool")])

\* {"name":"invokeTool","message":null,"input_tokens":9,"output_tokens":9}
InvokeNullMessage ==
    JObj([name |-> JStr("invokeTool"), message |-> JNull,
          input_tokens |-> JNum(9), output_tokens |-> JNum(9)])

\* {"name":"toolCall","message":"{\"name\":\"Read\",\"arguments\":{\"path\":\"x\"},\"toolId\":\"a\"}"}
CallA ==
    JObj([name |-> JStr("toolCall"),
          message |-> JStrJson(
              "{\"name\":\"Read\",\"arguments\":{\"path\":\"x\"},\"toolId\":\"a\"}",
              JObj([name |-> JStr("Read"),
                    arguments |-> JObj([path |-> JStr("x")]),
                    toolId |-> JStr("a")]))])

\* {"name":"toolCallCompleted","message":"{\"id\":\"b\"}"}
CallB ==
    JObj([name |-> JStr("toolCallCompleted"),
          message |-> JStrJson("{\"id\":\"b\"}", JObj([id |-> JStr("b")]))])

\* {"name":"toolCall","message":"{\"name\":\"Grep\",\"toolId\":\"\",\"id\":\"a\"}"}
CallEmptyToolId ==
    JObj([name |-> JStr("toolCall"),
          message |-> JStrJson(
              "{\"name\":\"Grep\",\"toolId\":\"\",\"id\":\"a\"}",
              JObj([name |-> JStr("Grep"), toolId |-> JStr(""),
                    id |-> JStr("a")]))])

\* {"name":"toolCall","message":"{\"toolId\":\"a\""}: the payload is cut short
CallBadPayload ==
    JObj([name |-> JStr("toolCall"), message |-> JStr("{\"toolId\":\"a\"")])

\* {"name":"toolCall","message":"{\"toolId\":[\"b\"]}"}: an unhashable id
CallListId ==
    JObj([name |-> JStr("toolCall"),
          message |-> JStrJson("{\"toolId\":[\"b\"]}",
                               JObj([toolId |-> JList(<<JStr("b")>>)]))])

\* {"input_tokens":1,"output_tokens":2}
Tokens1 == JObj([input_tokens |-> JNum(1), output_tokens |-> JNum(2)])

\* {"input_tokens":3,"output_tokens":4,"inferenceDuration":5,"tokensPerSecond":6,"outputTokens":4}
Tokens2Perf ==
    JObj([input_tokens |-> JNum(3), output_tokens |-> JNum(4),
          inferenceDuration |-> JNum(5), tokensPerSecond |-> JNum(6),
          outputTokens |-> JNum(4)])

\* {"input_tokens":7,"inferenceDuration":8}
InputOnlyPerf == JObj([input_tokens |-> JNum(7), inferenceDuration |-> JNum(8)])

\* {"level":"info","message":"Starting Amp CLI."}
Info == JObj([level |-> JStr("info"), message |-> JStr("Starting Amp CLI.")])

\* {"name":"invokeTool","message":"b, metrics","input_tokens":5,
\*  "output_tokens":6,"inferenceDuration":7}
InvokeWithMetrics ==
    JObj([name |-> JStr("invokeTool"), message |-> JStr("b, metrics"),
          input_tokens |-> JNum(5), output_tokens |-> JNum(6),
          inferenceDuration |-> JNum(7)])

\* {"name":"invokeTool","message":null,"input_tokens":5,"output_tokens":6,
\*  "inferenceDuration":7}
InvokeNullWithMetrics ==
    JObj([name |-> JStr("invokeTool"), message |-> JNull,
          input_tokens |-> JNum(5), output_tokens |-> JNum(6),
          inferenceDuration |-> JNum(7)])

\* the lines a log file of the parser runs is made of
ParseLines ==
    {Invalid, JNum(5), Info,
     InvokeA, InvokeB, InvokeNoMessage, InvokeNullMessage,
     InvokeWithMetrics, InvokeNullWithMetrics,
     CallA, CallB, CallEmptyToolId, CallBadPayload, CallListId,
     Tokens1, Tokens2Perf, InputOnlyPerf}

\* all files of at most MaxLen lines over a set of lines
LogsOver(lines) == UNION {[1..n -> lines] : n \in 0..MaxLen}

-----------------------------------------------------------------------------
(* parse_amp_debug_logs as a state machine *)

\* line 33: open(log_path) succeeds and the loop starts
ParseOpen ==
    /\ pc = "open"
    /\ readable
    /\ pc' = "scan"
    /\ UNCHANGED <<sort, log, readable, pos, pending, tool_calls, token_usage,
                   perf, extractVars>>

\* open raises and nothing catches it: the call ends without a value
ParseOpenFails_Propagates ==
    /\ pc = "open"
    /\ ~readable
    /\ pc' = "raised"
    /\ UNCHANGED <<sort, log, readable, pos, pending, tool_calls, token_usage,
                   perf, extractVars>>

\* lines 33, 72-73: open raises, the handler reports it
ParseOpenFails ==
    /\ pc = "open"
    /\ ~readable
    /\ pc' = "flush"
    /\ UNCHANGED <<sort, log, readable, pos, pending, tool_calls, token_usage,
                   perf, extractVars>>

\* lines 34-71 (and 72-73 when the body raises): read and handle one line
ParseLine ==
    /\ pc = "scan"
    /\ pos < Len(log)
    /\ LET st == LineStep([pending |-> pending, tool_calls |-> tool_calls,
                           token_usage |-> token_usage, perf |-> perf,
                           raised |-> FALSE], log[pos + 1])
       IN  /\ pos' = pos + 1
           /\ pending' = st.pending
           /\ tool_calls' = st.tool_calls
           /\ token_usage' = st.token_usage
           /\ perf' = st.perf
           /\ pc' = IF st.raised THEN "flush" ELSE "scan"
    /\ UNCHANGED <<sort, log, readable, extractVars>>

\* line 34: the file is exhausted, the loop and the with block end
ParseEndOfFile ==
    /\ pc = "scan"
    /\ pos = Len(log)
    /\ pc' = "flush"
    /\ UNCHANGED <<sort, log, readable, pos, pending, tool_calls, token_usage,
                   perf, extractVars>>

\* lines 76-82: flush the partially-filled calls and return
ParseFlush ==
    /\ pc = "flush"
    /\ tool_calls' = FlushCalls(tool_calls, pending)
    /\ pc' = "returned"
    /\ UNCHANGED <<sort, log, readable, pos, pending, token_usage, perf,
                   extractVars>>

ParseNext ==
    \/ ParseOpen
    \/ ParseOpenFails
    \/ ParseLine
    \/ ParseEndOfFile
    \/ ParseFlush

\* a call of parse_amp_debug_logs on a file: unreadable, or any readable file
Init ==
    /\ \/ readable = TRUE /\ log \in LogsOver(ParseLines)
       \/ readable = FALSE /\ log = << >>
    /\ pc = "open"
    /\ pos = 0
    /\ pending = << >>
    /\ tool_calls = << >>
    /\ token_usage = EmptyDict
    /\ perf = EmptyDict
    /\ xpc = "idle"
    /\ xpos = 0
    /\ thread_id = JNull
    /\ sort = SortIdle

Next == ParseNext

Spec == Init /\ [][Next]_vars

\* the value parse_amp_debug_logs returns
Returned ==
    [tool_calls |-> tool_calls, token_usage |-> token_usage, perf |-> perf]

-----------------------------------------------------------------------------
(* extract_thread_id *)

Uppers == "ABCDEFGHIJKLMNOPQRSTUVWXYZ"
Lowers == "abcdefghijklmnopqrstuvwxyz"

LowerChar(c) ==
    IF \E i \in 1..Len(Uppers) : CharAt(Uppers, i) = c
    THEN CharAt(Lowers, CHOOSE i \in 1..Len(Uppers) : CharAt(Uppers, i) = c)
    ELSE c

RECURSIVE Lower(_)
\* str.lower()
Lower(s) == IF s = "" THEN "" ELSE LowerChar(Head(s)) \o Lower(Tail(s))

\* sub in s
Contains(s, sub) ==
    \E i \in 1..(Len(s) - Len(sub) + 1) : SubSeq(s, i, i + Len(sub) - 1) = sub

\* the characters of the class [a-f0-9-]
HexDash ==
    {"a", "b", "c", "d", "e", "f",
     "0", "1", "2", "3", "4", "5", "6", "7", "8", "9", "-"}

\* positions where T-[a-f0-9-]+ can start matching
MatchStarts(s) ==
    {i \in 1..(Len(s) - 2) :
        SubSeq(s, i, i + 1) = "T-" /\ CharAt(s, i + 2) \in HexDash}

\* re.search(r'T-[a-f0-9-]+', s) finds a match
PatternFound(s) == MatchStarts(s) # {}

\* match.group(0): the leftmost match, extended greedily
PatternMatch(s) ==
    LET i == CHOOSE a \in MatchStarts(s) : \A b \in MatchStarts(s) : a <= b
        e == CHOOSE a \in (i + 2)..Len(s) :
                 /\ \A q \in (i + 2)..a : CharAt(s, q) \in HexDash
                 /\ a = Len(s) \/ CharAt(s, a + 1) \notin HexDash
    IN  SubSeq(s, i, e)

\* lines 90-106: what one iteration of the loop does with a raw line:
\* "continue" with the next line, "return" a value, or "raise" into the
\* handler at line 107 (every decoded value that is not a dict raises at
\* line 93, 94 or 98; a message that is not a str raises at line 99)
ExtractOutcome(raw) ==
    IF raw.t = "invalid" THEN [kind |-> "continue"]
    ELSE IF raw.t # "obj" THEN [kind |-> "raise"]
    ELSE LET j == raw.d
             message == GetDefault(j, "message", JStr(""))
         IN  IF "threadId" \in DOMAIN j
             THEN [kind |-> "return", value |-> j["threadId"]]
             ELSE IF "thread_id" \in DOMAIN j
             THEN [kind |-> "return", value |-> j["thread_id"]]
             ELSE IF message.t # "str" THEN [kind |-> "raise"]
             ELSE IF Contains(Lower(message.s), "thread")
                     /\ PatternFound(message.s)
             THEN [kind |-> "return", value |-> JStr(PatternMatch(message.s))]
             ELSE [kind |-> "continue"]

\* {"threadId":"T-1","message":"Thread created"}
ThreadIdLine == JObj([threadId |-> JStr("T-1"), message |-> JStr("Thread created")])

\* {"thread_id":"T-2","message":null}
ThreadUnderscoreLine == JObj([thread_id |-> JStr("T-2"), message |-> JNull])

\* {"threadId":"T-3","thread_id":"T-4","message":"thread T-5"}
ThreadBothLine ==
    JObj([threadId |-> JStr("T-3"), thread_id |-> JStr("T-4"),
          message |-> JStr("thread T-5")])

\* {"message":"Thread T-ab12-zz"}
ThreadMessageLine == JObj([message |-> JStr("Thread T-ab12-zz")])

\* {"message":"new THREAD T-Ab T-cd"}
ThreadSecondMatchLine == JObj([message |-> JStr("new THREAD T-Ab T-cd")])

\* {"message":"thread pool started"}: the word without an identifier
ThreadWordOnlyLine == JObj([message |-> JStr("thread pool started")])

\* {"message":"resumed T-ab"}: an identifier without the word
PatternOnlyLine == JObj([message |-> JStr("resumed T-ab")])

\* {"level":"debug","message":null}
NullMessageLine == JObj([level |-> JStr("debug"), message |-> JNull])

\* the lines a log file of the extractor runs is made of
ThreadLines ==
    {Invalid, JNum(5), Info, InvokeNoMessage,
     ThreadIdLine, ThreadUnderscoreLine, ThreadBothLine,
     ThreadMessageLine, ThreadSecondMatchLine,
     ThreadWordOnlyLine, PatternOnlyLine, NullMessageLine}

\* line 88: open(log_path) succeeds and the loop starts
ExtractOpen ==
    /\ xpc = "open"
    /\ readable
    /\ xpc' = "scan"
    /\ UNCHANGED <<sort, log, readable, parseVars, xpos, thread_id>>

\* lines 88, 107-109: open raises, the handler passes, None is returned
ExtractOpenFails ==
    /\ xpc = "open"
    /\ ~readable
    /\ xpc' = "returned"
    /\ thread_id' = JNull
    /\ UNCHANGED <<sort, log, readable, parseVars, xpos>>

\* lines 89-106 (and 107-109 when the body raises): read and handle one line
ExtractLine ==
    /\ xpc = "scan"
    /\ xpos < Len(log)
    /\ LET out == ExtractOutcome(log[xpos + 1])
       IN  /\ xpos' = xpos + 1
           /\ xpc' = IF out.kind = "continue" THEN "scan" ELSE "returned"
           /\ thread_id' = IF out.kind = "return" THEN out.value ELSE JNull
    /\ UNCHANGED <<sort, log, readable, parseVars>>

\* lines 89, 109: the file is exhausted, None is returned
ExtractEndOfFile ==
    /\ xpc = "scan"
    /\ xpos = Len(log)
    /\ xpc' = "returned"
    /\ thread_id' = JNull
    /\ UNCHANGED <<sort, log, readable, parseVars, xpos>>

ExtractNext ==
    \/ ExtractOpen
    \/ ExtractOpenFails
    \/ ExtractLine
    \/ ExtractEndOfFile

\* a call of extract_thread_id on a file: unreadable, or any readable file
InitThread ==
    /\ \/ readable = TRUE /\ log \in LogsOver(ThreadLines)
       \/ readable = FALSE /\ log = << >>
    /\ pc = "idle"
    /\ pos = 0
    /\ pending = << >>
    /\ tool_calls = << >>
    /\ token_usage = EmptyDict
    /\ perf = EmptyDict
    /\ xpc = "open"
    /\ xpos = 0
    /\ thread_id = JNull
    /\ sort = SortIdle

SpecThread == InitThread /\ [][ExtractNext]_vars

-----------------------------------------------------------------------------
(* what the lines read so far say, independently of the parser's state *)

\* raw is an invokeTool line (line 55)
IsInvokeLine(raw) == raw.t = "obj" /\ IsInvoke(raw.d)

\* raw is an invokeTool line that puts the id k into pending (lines 55-58)
LineInvokes(raw, k) ==
    /\ IsInvokeLine(raw)
    /\ ~InvokeRaises(raw.d)
    /\ ToolIdOf(GetDefault(raw.d, "message", JStr("")).s) = k

\* raw is a toolCall / toolCallCompleted line (line 62)
IsCallLine(raw) == raw.t = "obj" /\ IsCall(raw.d)

\* raw is a call event whose payload decodes to an object (lines 62-65)
HasPayload(raw) ==
    IsCallLine(raw) /\ PayloadLoads(raw.d) /\ raw.d["message"].loads.t = "obj"

PayloadOf(raw) == raw.d["message"].loads.d

\* raw is a call event that names the non-empty id k (lines 62-66)
LineCalls(raw, k) ==
    HasPayload(raw) /\ k # "" /\ CallId(PayloadOf(raw)) = JStr(k)

\* the ids invoked by the first n lines
InvokedIds(n) ==
    {ToolIdOf(GetDefault(log[i].d, "message", JStr("")).s) :
        i \in {q \in 1..n : IsInvokeLine(log[q]) /\ ~InvokeRaises(log[q].d)}}

\* the tool_ids of the records in tool_calls
OutputIds == {tool_calls[i].tool_id : i \in 1..Len(tool_calls)}

\* the scan is under way: the flush of line 76 has not run
BeforeFlush == pc \in {"open", "scan", "flush"}

-----------------------------------------------------------------------------
(* C1 *)

\* C1 (as stated): at every point of the scan, no tool_id is both a key of
\* pending and the tool_id of a record already in tool_calls.
C1_PendingDisjointFromOutput ==
    BeforeFlush => DictKeys(pending) \cap OutputIds = {}

\* C1 (amended): at every point of the scan, a tool_id is both a key of
\* pending and the tool_id of a record in tool_calls only if an invokeTool
\* line for that id was read after a call event that named it; an id that is
\* not invoked again after its completion is in at most one of the two.
C1_SharedIdWasInvokedAgain ==
    BeforeFlush =>
        \A k \in DictKeys(pending) \cap OutputIds :
            \E i \in 1..pos : \E n \in (i + 1)..pos :
                LineCalls(log[i], k) /\ LineInvokes(log[n], k)

\* an id was completed and then invoked again: it is in both collections
C1_Witness ==
    /\ pc = "scan"
    /\ DictKeys(pending) \cap OutputIds # {}

-----------------------------------------------------------------------------
(* C2 *)

\* C2: the length of the returned tool_calls is the number of invokeTool
\* lines of the file (each one either matched by a later call event or never
\* matched, and counted once).
C2_LengthCountsEveryInvoke ==
    (pc = "returned" /\ readable) =>
        Len(tool_calls) = Cardinality({i \in 1..Len(log) : IsInvokeLine(log[i])})

-----------------------------------------------------------------------------
(* C3 *)

\* the line the next ParseLine step handles
CurrentLine == log[pos + 1]

\* the id of a payload as the specification words it: toolId, and id only
\* when the key toolId is missing from the payload
IdWhenToolIdAbsent(payload) ==
    IF "toolId" \in DOMAIN payload THEN payload["toolId"] ELSE Get(payload, "id")

\* the record a call event with this payload makes of the pending id k
RecordFor(k, payload) ==
    [tool_id |-> k,
     name |-> GetDefault(payload, "name", JStr("unknown")),
     arguments |-> GetDefault(payload, "arguments", JObj(EmptyDict))]

\* the step moves the pending entry k, filled from payload, to tool_calls
MovesToOutput(k, payload) ==
    /\ pending' = SelectSeq(pending, LAMBDA e : e.k # k)
    /\ tool_calls' = Append(tool_calls, RecordFor(k, payload))

\* C3 (as stated): a call event whose payload parses and whose id (toolId, or
\* id only when toolId is absent from the payload) is a key of pending, for
\* every possible key, gets name and arguments (with their defaults), leaves
\* pending and is appended to tool_calls.
C3_CallCompletesAnyPendingKey ==
    [][(ParseLine /\ HasPayload(CurrentLine)
          /\ IdWhenToolIdAbsent(PayloadOf(CurrentLine)).t = "str"
          /\ DictHas(pending, IdWhenToolIdAbsent(PayloadOf(CurrentLine)).s))
       => MovesToOutput(IdWhenToolIdAbsent(PayloadOf(CurrentLine)).s,
                        PayloadOf(CurrentLine))]_vars

\* C3 (amended): a call event whose payload parses to an object and whose id
\* (toolId when it is truthy, otherwise id) is a non-empty string that is a
\* key of pending gets name (default "unknown") and arguments (default empty
\* mapping), leaves pending and is appended to tool_calls.
C3_CallCompletesNonEmptyPendingKey ==
    [][(ParseLine /\ HasPayload(CurrentLine)
          /\ CallId(PayloadOf(CurrentLine)).t = "str"
          /\ CallId(PayloadOf(CurrentLine)).s # ""
          /\ DictHas(pending, CallId(PayloadOf(CurrentLine)).s))
       => MovesToOutput(CallId(PayloadOf(CurrentLine)).s,
                        PayloadOf(CurrentLine))]_vars

\* a call event without name and arguments has just completed a pending id
C3_Witness ==
    /\ pc = "scan"
    /\ pos >= 2
    /\ HasPayload(log[pos])
    /\ "name" \notin DOMAIN PayloadOf(log[pos])
    /\ CallId(PayloadOf(log[pos])).t = "str"
    /\ LineInvokes(log[pos - 1], CallId(PayloadOf(log[pos])).s)
    /\ tool_calls # << >>
    /\ tool_calls[Len(tool_calls)] =
           RecordFor(CallId(PayloadOf(log[pos])).s, PayloadOf(log[pos]))
    /\ ~DictHas(pending, CallId(PayloadOf(log[pos])).s)

-----------------------------------------------------------------------------
(* C4 *)

\* C4: for every readable file the scan reads every line: whatever a line
\* holds, the lines after it are still handled before the function returns.
C4_ScanReadsEveryLine ==
    (pc = "returned" /\ readable) => pos = Len(log)

-----------------------------------------------------------------------------
(* C5 *)

\* the file without its lines that are not valid JSON
WithoutInvalid(lines) == SelectSeq(lines, LAMBDA raw : raw.t # "invalid")

\* C5: the result for a log equals the result for the same log with all its
\* invalid-JSON (and blank) lines removed.
C5_InvalidLinesHaveNoEffect ==
    (pc = "returned" /\ readable) => Returned = ParseResult(WithoutInvalid(log))

\* an invalid line stood between an invokeTool line and the call event that
\* completed it
C5_Witness ==
    /\ pc = "returned"
    /\ Len(log) = 3
    /\ log[2] = Invalid
    /\ \E k \in InvokedIds(1) : LineCalls(log[3], k)
    /\ Len(tool_calls) = 1
    /\ "name" \in DOMAIN tool_calls[1]

-----------------------------------------------------------------------------
(* C6 *)

\* after the first n lines the id k is pending since the invokeTool of line i:
\* no call event has named it from line i on
PendingSince(k, i, n) ==
    /\ i \in 1..n
    /\ LineInvokes(log[i], k)
    /\ \A q \in (i + 1)..n : ~LineCalls(log[q], k)

\* the ids still pending after the first n lines
PendingIds(n) == {k \in InvokedIds(n) : \E i \in 1..n : PendingSince(k, i, n)}

\* line n is a call event that completes the pending id k
CompletesAt(n, k) ==
    /\ LineCalls(log[n], k)
    /\ \E i \in 1..(n - 1) : PendingSince(k, i, n - 1)

\* the matched records of the first n lines, in the order of the call events
\* that completed them
MatchedUpTo(n) ==
    LET f[i \in 0..n] ==
            IF i = 0 THEN << >>
            ELSE IF \E k \in InvokedIds(i) : CompletesAt(i, k)
            THEN Append(f[i - 1],
                        RecordFor(CallId(PayloadOf(log[i])).s, PayloadOf(log[i])))
            ELSE f[i - 1]
    IN  f[n]

\* the line whose invokeTool created the entry now pending under k: the last
\* invokeTool line of k
CreatedAt(k, n) ==
    CHOOSE i \in 1..n :
        /\ LineInvokes(log[i], k)
        /\ \A q \in (i + 1)..n : ~LineInvokes(log[q], k)

\* the line since which k is a key of pending without interruption: the first
\* invokeTool line of k after the last call event that named it
KeyInsertedAt(k, n) ==
    CHOOSE i \in 1..n :
        /\ PendingSince(k, i, n)
        /\ \A q \in 1..(i - 1) : ~PendingSince(k, q, n)

\* the still-pending records of the first n lines, ordered by the line
\* number rank[k] of each pending id k
PendingOrderedBy(rank, n) ==
    LET f[i \in 0..n] ==
            IF i = 0 THEN << >>
            ELSE IF \E k \in PendingIds(n) : rank[k] = i
            THEN Append(f[i - 1],
                        [tool_id |-> CHOOSE k \in PendingIds(n) : rank[k] = i])
            ELSE f[i - 1]
    IN  f[n]

-----------------------------------------------------------------------------
(* C7 *)

\* the call event raw names an id that is a key of pend; the id is read as
\* line 65 reads it (toolId when truthy, otherwise id)
NamesPendingKey(raw, pend) ==
    /\ HasPayload(raw)
    /\ CallId(PayloadOf(raw)).t = "str"
    /\ DictHas(pend, CallId(PayloadOf(raw)).s)

\* C7: a call event whose payload fails to parse, or whose id is not a key of
\* pending at that point, leaves pending and tool_calls unchanged and the
\* scan goes on to the next line (no error surfaces).
C7_UnmatchedCallChangesNothing ==
    [][(ParseLine /\ IsCallLine(CurrentLine)
          /\ ~NamesPendingKey(CurrentLine, pending))
       => /\ pending' = pending
          /\ tool_calls' = tool_calls
          /\ pc' = "scan"]_vars

\* a pending entry has stayed pending across a call event that names it in a
\* payload that does not parse
C7_Witness ==
    /\ pc = "scan"
    /\ pos >= 2
    /\ IsCallLine(log[pos])
    /\ ~PayloadLoads(log[pos].d)
    /\ DictHas(pending, "a")
    /\ tool_calls = << >>

-----------------------------------------------------------------------------
(* C8 *)

\* raw is an object with both token keys
HasBothTokenKeys(raw) ==
    raw.t = "obj" /\ {"input_tokens", "output_tokens"} \subseteq DOMAIN raw.d

\* the last line of the file that has both token keys
LastTokenLine ==
    log[CHOOSE i \in 1..Len(log) :
            /\ HasBothTokenKeys(log[i])
            /\ \A q \in (i + 1)..Len(log) : ~HasBothTokenKeys(log[q])]

\* C8: the returned token_usage holds exactly the input_tokens and
\* output_tokens of the last line of the file that contains both keys, and is
\* empty when no line contains both.
C8_TokenUsageIsLastTokenLine ==
    pc = "returned" =>
        token_usage =
            IF \E i \in 1..Len(log) : HasBothTokenKeys(log[i])
            THEN [input_tokens |-> LastTokenLine.d["input_tokens"],
                  output_tokens |-> LastTokenLine.d["output_tokens"]]
            ELSE EmptyDict

-----------------------------------------------------------------------------
(* C9 *)

\* raw is an object with the key inferenceDuration
HasInferenceDuration(raw) == raw.t = "obj" /\ "inferenceDuration" \in DOMAIN raw.d

\* the last line of the file that has inferenceDuration
LastPerfLine ==
    log[CHOOSE i \in 1..Len(log) :
            /\ HasInferenceDuration(log[i])
            /\ \A q \in (i + 1)..Len(log) : ~HasInferenceDuration(log[q])]

\* C9: the returned perf is the restriction of the last line of the file that
\* contains inferenceDuration to {inferenceDuration, tokensPerSecond,
\* outputTokens}, and is empty when no line contains inferenceDuration.
C9_PerfIsLastPerfLine ==
    pc = "returned" =>
        /\ DOMAIN perf =
              IF \E i \in 1..Len(log) : HasInferenceDuration(log[i])
              THEN {"inferenceDuration", "tokensPerSecond", "outputTokens"}
                       \cap DOMAIN LastPerfLine.d
              ELSE {}
        /\ \A k \in DOMAIN perf : perf[k] = LastPerfLine.d[k]

-----------------------------------------------------------------------------
(* C10 *)

\* raw matches the third rule: its message is text that contains "thread"
\* in any case and an identifier of the shape T-[a-f0-9-]+
MatchesMessageRule(raw) ==
    /\ "message" \in DOMAIN raw.d
    /\ raw.d["message"].t = "str"
    /\ Contains(Lower(raw.d["message"].s), "thread")
    /\ PatternFound(raw.d["message"].s)

\* raw is a parsed object that matches one of the three rules
MatchesRule(raw) ==
    /\ raw.t = "obj"
    /\ \/ "threadId" \in DOMAIN raw.d
       \/ "thread_id" \in DOMAIN raw.d
       \/ MatchesMessageRule(raw)

\* the identifier of a matching line: threadId, then thread_id, then the
\* identifier in the message
RuleValue(raw) ==
    IF "threadId" \in DOMAIN raw.d THEN raw.d["threadId"]
    ELSE IF "thread_id" \in DOMAIN raw.d THEN raw.d["thread_id"]
    ELSE JStr(PatternMatch(raw.d["message"].s))

\* the first line of the file that matches a rule
FirstMatchingLine ==
    log[CHOOSE i \in 1..Len(log) :
            /\ MatchesRule(log[i])
            /\ \A q \in 1..(i - 1) : ~MatchesRule(log[q])]

\* C10: extract_thread_id returns the identifier of the first line in file
\* order that matches any rule, taken by the priority threadId, thread_id,
\* message; no later line influences the result.
C10_FirstMatchingLineWins ==
    (xpc = "returned" /\ \E i \in 1..Len(log) : MatchesRule(log[i]))
        => thread_id = RuleValue(FirstMatchingLine)

-----------------------------------------------------------------------------
(* C11 *)

\* C11: extract_thread_id returns None only when the file cannot be opened
\* or no line matches a rule; when some line matches, the identifier of the
\* first such line is returned, whatever the lines before it hold.
C11_AbsentOnlyWithoutMatch ==
    (xpc = "returned" /\ thread_id = JNull)
        => \/ ~readable
           \/ \A i \in 1..Len(log) : ~MatchesRule(log[i])


-----------------------------------------------------------------------------
(* both functions on one file, as run_test_amp_command calls them *)

\* the lines of the files given to the pair of calls
MainLines ==
    {Invalid, JNum(5), Info, InvokeA, InvokeNullMessage, CallA,
     CallEmptyToolId, Tokens2Perf, InputOnlyPerf, ThreadIdLine,
     ThreadUnderscoreLine, ThreadMessageLine, NullMessageLine}

\* line 138: extract_thread_id runs once parse_amp_debug_logs has returned
MainExtract ==
    /\ pc = "returned"
    /\ ExtractNext

\* lines 137-138: parse_amp_debug_logs(log_file), then
\* extract_thread_id(log_file), on the same file
InitMain ==
    /\ \/ readable = TRUE /\ log \in LogsOver(MainLines)
       \/ readable = FALSE /\ log = << >>
    /\ pc = "open"
    /\ pos = 0
    /\ pending = << >>
    /\ tool_calls = << >>
    /\ token_usage = EmptyDict
    /\ perf = EmptyDict
    /\ xpc = "open"
    /\ xpos = 0
    /\ thread_id = JNull
    /\ sort = SortIdle

MainNext ==
    \/ ParseNext
    \/ MainExtract

SpecMain == InitMain /\ [][MainNext]_vars

-----------------------------------------------------------------------------
(* C12 *)

\* C12: when the log file cannot be opened, or holds no line,
\* parse_amp_debug_logs does not raise and returns tool_calls = [],
\* token_usage = {} and perf = {}, and extract_thread_id returns None.
C12_NoFileOrNoLineGivesEmptyResults ==
    (~readable \/ log = << >>)
        => /\ pc \in {"open", "scan", "flush", "returned"}
           /\ xpc \in {"open", "scan", "returned"}
           /\ Returned = [tool_calls |-> << >>, token_usage |-> EmptyDict,
                          perf |-> EmptyDict]
           /\ thread_id = JNull

C12_Witness ==
    /\ ~readable
    /\ pc = "returned"
    /\ xpc = "returned"


-----------------------------------------------------------------------------
(* C13 *)

\* the record r carries the details a call event fills in
HasName(r) == "name" \in DOMAIN r

-----------------------------------------------------------------------------
(* C14 *)

\* k is the first comma-separated segment of message without the whitespace
\* around it: message is k between two runs of whitespace, then a comma or
\* the end, with no comma before
TrimmedFirstSegment(message, k) ==
    \E c \in 1..(Len(message) + 1) :
        /\ \A q \in 1..(c - 1) : CharAt(message, q) # ","
        /\ c <= Len(message) => CharAt(message, c) = ","
        /\ \E a \in 1..c : \E b \in 0..(c - 1) :
               /\ k = SubSeq(message, a, b)
               /\ \A q \in 1..(a - 1) : CharAt(message, q) \in Whitespace
               /\ \A q \in (b + 1)..(c - 1) : CharAt(message, q) \in Whitespace
               /\ k # "" => /\ CharAt(message, a) \notin Whitespace
                            /\ CharAt(message, b) \notin Whitespace

\* the text of the message of an invokeTool line ("" when the key is missing)
MessageText(raw) == GetDefault(raw.d, "message", JStr("")).s

\* the pieces of text s
Pieces(s) == {SubSeq(s, a, b) : a \in 1..(Len(s) + 1), b \in 0..Len(s)}

\* the places of the key k in the dict d
PlacesOf(d, k) == {i \in 1..Len(d) : d[i].k = k}

\* the records of tool_calls that bear the tool_id k
RecordsOf(k) == {i \in 1..Len(tool_calls) : tool_calls[i].tool_id = k}

\* line i starts a pending period of k: an invokeTool of k met while k is not
\* pending
StartsPending(k, i) ==
    /\ LineInvokes(log[i], k)
    /\ k \notin PendingIds(i - 1)

\* the step handles an invokeTool line: its id is the trimmed first segment
\* of the message, pending holds the fresh record under that id, in the place
\* the id had if it was pending and last otherwise, and nothing else changes
InvokeSetsFreshEntry ==
    (/\ ParseLine
     /\ IsInvokeLine(log[pos + 1])
     /\ ~InvokeRaises(log[pos + 1].d))
        => \E k \in Pieces(MessageText(log[pos + 1])) :
               /\ TrimmedFirstSegment(MessageText(log[pos + 1]), k)
               /\ Cardinality(PlacesOf(pending', k)) = 1
               /\ \A i \in PlacesOf(pending', k) :
                      pending'[i] = [k |-> k, v |-> [tool_id |-> k]]
               /\ Len(pending') =
                      IF DictHas(pending, k) THEN Len(pending)
                      ELSE Len(pending) + 1
               /\ \A i \in 1..Len(pending) :
                      pending[i].k # k => pending'[i] = pending[i]
               /\ tool_calls' = tool_calls

\* two invokeTool lines of k read with no call event of k between them leave
\* one entry under k
OneEntryPerId ==
    BeforeFlush =>
        \A k \in PendingIds(pos) : Cardinality(PlacesOf(pending, k)) = 1

\* the records returned for k are as many as the pending periods of k among
\* the lines read: invokeTool lines repeated within a period add none
OneRecordPerPendingPeriod ==
    pc = "returned" =>
        \A k \in InvokedIds(pos) :
            Cardinality(RecordsOf(k))
                = Cardinality({i \in 1..pos : StartsPending(k, i)})

-----------------------------------------------------------------------------
(* bubble_sort (slow_sort.py) *)

\* Longest list given to bubble_sort.
MaxArr == 4

\* Largest element of a list given to bubble_sort.
MaxVal == 3

\* the lists given to bubble_sort
SortInputs == UNION {[1..len -> 1..MaxVal] : len \in 0..MaxArr}

\* as InnerLimit, one comparison short
InnerLimit_StopsEarly(n, i) == n - i - 2

\* line 8: range(0, n - i - 1) ends before this j
InnerLimit(n, i) == n - i - 1

\* line 10: arr[j], arr[j + 1] = arr[j + 1], arr[j] (j counts from 0)
Swapped(arr, j) ==
    [arr EXCEPT ![j + 1] = arr[j + 2], ![j + 2] = arr[j + 1]]

\* line 6: n = len(arr), and range(n) starts at 0
SortEnter ==
    /\ sort.pc = "call"
    /\ sort' = [sort EXCEPT !.pc = "outer", !.n = Len(sort.arr), !.i = 0]
    /\ UNCHANGED <<log, readable, parseVars, extractVars>>

\* line 7: range(n) yields the next i, and range(0, n - i - 1) starts at 0
SortOuter ==
    /\ sort.pc = "outer"
    /\ sort.i < sort.n
    /\ sort' = [sort EXCEPT !.pc = "inner", !.j = 0]
    /\ UNCHANGED <<log, readable, parseVars, extractVars>>

\* lines 8-10: the next j, the comparison and the swap
SortInner ==
    /\ sort.pc = "inner"
    /\ sort.j < InnerLimit(sort.n, sort.i)
    /\ sort' = [sort EXCEPT
                  !.arr = IF sort.arr[sort.j + 1] > sort.arr[sort.j + 2]
                          THEN Swapped(sort.arr, sort.j)
                          ELSE sort.arr,
                  !.j = sort.j + 1]
    /\ UNCHANGED <<log, readable, parseVars, extractVars>>

\* line 8: range(0, n - i - 1) is exhausted, back to the outer loop
SortInnerDone ==
    /\ sort.pc = "inner"
    /\ ~(sort.j < InnerLimit(sort.n, sort.i))
    /\ sort' = [sort EXCEPT !.pc = "outer", !.i = sort.i + 1]
    /\ UNCHANGED <<log, readable, parseVars, extractVars>>

\* lines 7, 11: range(n) is exhausted, return arr
SortReturn ==
    /\ sort.pc = "outer"
    /\ ~(sort.i < sort.n)
    /\ sort' = [sort EXCEPT !.pc = "returned"]
    /\ UNCHANGED <<log, readable, parseVars, extractVars>>

SortNext ==
    \/ SortEnter
    \/ SortOuter
    \/ SortInner
    \/ SortInnerDone
    \/ SortReturn

\* a call bubble_sort(arr) on any list
InitSort ==
    /\ \E given \in SortInputs :
           sort = [pc |-> "call", given |-> given, arr |-> given, n |-> 0,
                   i |-> 0, j |-> 0]
    /\ log = << >>
    /\ readable = FALSE
    /\ pc = "idle"
    /\ pos = 0
    /\ pending = << >>
    /\ tool_calls = << >>
    /\ token_usage = EmptyDict
    /\ perf = EmptyDict
    /\ xpc = "idle"
    /\ xpos = 0
    /\ thread_id = JNull

\* the interpreter runs the function on: every enabled step is taken
SpecSort == InitSort /\ [][SortNext]_vars /\ WF_vars(SortNext)

-----------------------------------------------------------------------------
(* C15 *)

\* s is in non-decreasing order
IsSorted(s) == \A p \in 1..Len(s) : \A q \in p..Len(s) : s[p] <= s[q]

\* how many times v occurs in s
Count(s, v) == Cardinality({q \in 1..Len(s) : s[q] = v})

\* s and t hold the same elements, each as many times
IsPermutation(s, t) ==
    /\ Len(s) = Len(t)
    /\ \A v \in 1..MaxVal : Count(s, v) = Count(t, v)

\* sorted(s): the list in non-decreasing order with the elements of s
ReferenceSort(s) ==
    CHOOSE t \in [1..Len(s) -> 1..MaxVal] : IsSorted(t) /\ IsPermutation(t, s)

\* C15: for every list, bubble_sort returns a non-decreasing permutation of
\* the list it was given, equal to the reference sort of that list, and its
\* two nested loops terminate.
C15_BubbleSortSortsAndTerminates ==
    /\ [](sort.pc = "returned" =>
              /\ IsSorted(sort.arr)
              /\ IsPermutation(sort.arr, sort.given)
              /\ sort.arr = ReferenceSort(sort.given))
    /\ <>(sort.pc = "returned")

C15_Witness ==
    /\ sort.pc = "returned"
    /\ Len(sort.given) = MaxArr
    /\ ~IsSorted(sort.given)
    /\ \E p \in 1..Len(sort.given) : \E q \in (p + 1)..Len(sort.given) :
           sort.given[p] = sort.given[q]
    /\ sort.arr # sort.given


-----------------------------------------------------------------------------
(* C16 *)

\* among the first n lines a call event has completed k and no invokeTool of
\* k has come since
CompletedAndNotInvokedSince(k, n) ==
    \E m \in 1..n :
        /\ CompletesAt(m, k)
        /\ \A q \in (m + 1)..n : ~LineInvokes(log[q], k)

\* a further call event for an id already completed, with no invokeTool of
\* the id in between, changes neither pending nor tool_calls
LaterCallIsIgnored ==
    (/\ ParseLine
     /\ \E k \in InvokedIds(pos) :
            /\ LineCalls(log[pos + 1], k)
            /\ CompletedAndNotInvokedSince(k, pos))
        => /\ pending' = pending
           /\ tool_calls' = tool_calls

\* the records with a name are, one for one and in order, the completions
\* found in the log: each bears the name and arguments of the first call
\* event that followed the invokeTool of its id
OneRecordPerCompletion ==
    /\ Len(MatchedUpTo(pos)) <= Len(tool_calls)
    /\ SubSeq(tool_calls, 1, Len(MatchedUpTo(pos))) = MatchedUpTo(pos)
    /\ \A k \in InvokedIds(pos) :
           Cardinality({q \in RecordsOf(k) : HasName(tool_calls[q])})
               = Cardinality({m \in 1..pos : CompletesAt(m, k)})

\* C16: each pending entry is completed at most once: once a call event has
\* matched an id, a later call event for that id with no new invokeTool in
\* between is ignored; the record keeps the name and arguments of the first
\* call event after the invokeTool, and the id has one record, not two.
C16_CompletedAtMostOnce ==
    /\ [][LaterCallIsIgnored]_vars
    /\ [](pc \in {"scan", "flush", "returned"} => OneRecordPerCompletion)

\* the log holds an invokeTool, a call event that completes it and a later
\* call event for the same id with another payload; one record came of it
C16_Witness ==
    /\ pc = "returned"
    /\ \E k \in InvokedIds(pos) : \E m \in 1..pos : \E q \in (m + 1)..pos :
           /\ CompletesAt(m, k)
           /\ LineCalls(log[q], k)
           /\ \A r \in m..q : ~LineInvokes(log[r], k)
           /\ PayloadOf(log[q]) # PayloadOf(log[m])
           /\ Cardinality(RecordsOf(k)) = 1
           /\ \A r \in RecordsOf(k) :
                  tool_calls[r] = RecordFor(k, PayloadOf(log[m]))


-----------------------------------------------------------------------------
(* the copy of both functions in scripts/test/test-debug-log-parsing.py *)

\* lines 84-89: tool_calls, token_usage, perf and pending before the open
SecondInitial ==
    [tool_calls |-> << >>, token_usage |-> EmptyDict, perf |-> EmptyDict,
     pending |-> << >>, raised |-> FALSE]

\* lines 94-130: one iteration of `for raw in fp`, statement by statement;
\* raised tells that an exception left the loop for the handler of line 131
SecondLineStep(st, raw) ==
    IF raw.t = "invalid"
    THEN st                                    \* lines 96-97: continue
    ELSE IF raw.t # "obj"
    THEN [st EXCEPT !.raised = TRUE]           \* line 100 or 114: not a dict
    ELSE
      LET j == raw.d
          \* lines 100-104
          after_tokens ==
              IF {"input_tokens", "output_tokens"} \subseteq DOMAIN j
              THEN [st EXCEPT !.token_usage =
                        [input_tokens |-> j["input_tokens"],
                         output_tokens |-> j["output_tokens"]]]
              ELSE st
          \* lines 107-110
          after_perf ==
              IF "inferenceDuration" \in DOMAIN j
              THEN [after_tokens EXCEPT !.perf =
                        [k \in {q \in {"inferenceDuration", "tokensPerSecond",
                                       "outputTokens"} : q \in DOMAIN j}
                            |-> j[k]]]
              ELSE after_tokens
          name == IF "name" \in DOMAIN j THEN j["name"] ELSE JNull
          \* lines 114-117
          after_invoke ==
              IF name # JStr("invokeTool") THEN after_perf
              ELSE LET message == IF "message" \in DOMAIN j THEN j["message"]
                                  ELSE JStr("")
                   IN  IF message.t # "str"
                       THEN [after_perf EXCEPT !.raised = TRUE]
                       ELSE LET tool_id == Strip(FirstSegment(message.s))
                            IN  [after_perf EXCEPT !.pending =
                                     DictSet(@, tool_id, [tool_id |-> tool_id])]
          \* lines 121-130
          after_call ==
              IF after_invoke.raised THEN after_invoke
              ELSE IF name \notin {JStr("toolCall"), JStr("toolCallCompleted")}
              THEN after_invoke
              ELSE IF \/ "message" \notin DOMAIN j          \* KeyError
                      \/ j["message"].t # "str"             \* TypeError
                      \/ "loads" \notin DOMAIN j["message"] \* JSONDecodeError
              THEN after_invoke
              ELSE LET payload == j["message"].loads
                   IN  IF payload.t # "obj" THEN after_invoke  \* no .get
                       ELSE LET toolId == Get(payload.d, "toolId")
                                t_id == IF Truthy(toolId) THEN toolId
                                        ELSE Get(payload.d, "id")
                            IN  IF ~Truthy(t_id) THEN after_invoke
                                ELSE IF ~Hashable(t_id) THEN after_invoke
                                ELSE IF t_id.t # "str" THEN after_invoke
                                ELSE IF ~DictHas(after_invoke.pending, t_id.s)
                                THEN after_invoke
                                ELSE
                                  LET entry == DictGet(after_invoke.pending,
                                                       t_id.s)
                                      named ==
                                          RecSet(entry, "name",
                                                 GetDefault(payload.d, "name",
                                                            JStr("unknown")))
                                      filled ==
                                          RecSet(named, "arguments",
                                                 GetDefault(payload.d,
                                                            "arguments",
                                                            JObj(EmptyDict)))
                                  IN  [after_invoke EXCEPT
                                         !.pending = DictRemove(@, t_id.s),
                                         !.tool_calls = Append(@, filled)]
      IN  after_call

\* lines 93-130: the locals of the copy after the first n lines of the file
SecondStateAfter(n) ==
    LET f[q \in 0..n] ==
            IF q = 0 THEN SecondInitial
            ELSE IF f[q - 1].raised THEN f[q - 1]
            ELSE SecondLineStep(f[q - 1], log[q])
    IN  f[n]

\* lines 82-141: the dict the copy of parse_amp_debug_logs returns
SecondParseResult ==
    LET st == IF readable THEN SecondStateAfter(Len(log)) ELSE SecondInitial
    IN  [tool_calls |-> st.tool_calls \o DictValues(st.pending),
         token_usage |-> st.token_usage,
         perf |-> st.perf]

\* lines 149-165: one iteration of the loop of the copy of extract_thread_id:
\* the loop goes on ("scan") or the function is over ("done") with a value
SecondExtractLine(raw) ==
    IF raw.t = "invalid" THEN [at |-> "scan", value |-> JNull]
    ELSE IF raw.t # "obj" THEN [at |-> "done", value |-> JNull]
    ELSE IF "threadId" \in DOMAIN raw.d
    THEN [at |-> "done", value |-> raw.d["threadId"]]
    ELSE IF "thread_id" \in DOMAIN raw.d
    THEN [at |-> "done", value |-> raw.d["thread_id"]]
    ELSE LET message == IF "message" \in DOMAIN raw.d THEN raw.d["message"]
                        ELSE JStr("")
         IN  IF message.t # "str" THEN [at |-> "done", value |-> JNull]
             ELSE IF ~Contains(Lower(message.s), "thread")
             THEN [at |-> "scan", value |-> JNull]
             ELSE IF ~PatternFound(message.s)
             THEN [at |-> "scan", value |-> JNull]
             ELSE [at |-> "done", value |-> JStr(PatternMatch(message.s))]

\* lines 147-168: the copy of extract_thread_id after the first n lines
SecondExtractAfter(n) ==
    LET f[q \in 0..n] ==
            IF q = 0 THEN [at |-> "scan", value |-> JNull]
            ELSE IF f[q - 1].at = "done" THEN f[q - 1]
            ELSE SecondExtractLine(log[q])
    IN  f[n]

\* lines 145-169: the value the copy of extract_thread_id returns
SecondExtractResult ==
    IF readable THEN SecondExtractAfter(Len(log)).value ELSE JNull

-----------------------------------------------------------------------------
(* C17 *)

\* C17: the two copies of parse_amp_debug_logs and extract_thread_id are
\* equivalent: run side by side over the same lines, their pending maps,
\* tool_calls, token_usage and perf agree after every line, they leave the
\* loop at the same line, and the values they return are equal.
C17_CopiesAgree ==
    /\ pc \in {"scan", "flush"} /\ readable =>
           LET second == SecondStateAfter(pos)
           IN  /\ pending = second.pending
               /\ tool_calls = second.tool_calls
               /\ token_usage = second.token_usage
               /\ perf = second.perf
               /\ pc = "scan" => ~second.raised
               /\ second.raised => pc = "flush"
               /\ (pc = "flush" /\ pos < Len(log)) => second.raised
    /\ pc = "returned" => Returned = SecondParseResult
    /\ xpc = "scan" => SecondExtractAfter(xpos).at = "scan"
    /\ xpc = "returned" => thread_id = SecondExtractResult
    /\ (xpc = "returned" /\ readable) =>
           /\ SecondExtractAfter(xpos) = SecondExtractAfter(Len(log))
           /\ xpos < Len(log) => SecondExtractAfter(xpos).at = "done"

\* both copies have returned, with a completed call and a thread id
C17_Witness ==
    /\ pc = "returned"
    /\ xpc = "returned"
    /\ \E q \in 1..Len(tool_calls) : HasName(tool_calls[q])
    /\ thread_id # JNull
    /\ Returned = SecondParseResult


-----------------------------------------------------------------------------
(* C18 *)

\* raw has a name among invokeTool, toolCall and toolCallCompleted
HasFlowName(raw) == IsInvokeLine(raw) \/ IsCallLine(raw)

\* the step has put a fresh record {tool_id} into pending; when the message
\* of raw is text the id is its trimmed first segment
PendingUpdatedBy(raw) ==
    \E k \in DictKeys(pending') :
        /\ DictGet(pending', k) = [tool_id |-> k]
        /\ ~InvokeRaises(raw.d) => TrimmedFirstSegment(MessageText(raw), k)

\* what one line does to token_usage, perf and pending, each by its own test
StepsAreIndependent(raw) ==
    /\ (HasBothTokenKeys(raw) /\ HasInferenceDuration(raw)
          /\ IsInvokeLine(raw))
           => /\ token_usage' = [input_tokens |-> raw.d["input_tokens"],
                                 output_tokens |-> raw.d["output_tokens"]]
              /\ perf' = [k \in PerfKeys \cap DOMAIN raw.d |-> raw.d[k]]
              /\ PendingUpdatedBy(raw)
    /\ ~HasFlowName(raw) => pending' = pending /\ tool_calls' = tool_calls
    /\ ~HasBothTokenKeys(raw) => token_usage' = token_usage
    /\ ~HasInferenceDuration(raw) => perf' = perf

\* C18: the per-line steps are independent, not exclusive: one line with
\* input_tokens, output_tokens, inferenceDuration and the name invokeTool
\* updates token_usage, perf and pending all at once; a line whose name is
\* none of invokeTool, toolCall, toolCallCompleted leaves pending and
\* tool_calls unchanged; a line without the token keys leaves token_usage
\* unchanged, and one without inferenceDuration leaves perf unchanged.
C18_StepsIndependent ==
    [][ParseLine => StepsAreIndependent(log[pos + 1])]_vars


-----------------------------------------------------------------------------
(* C19 *)

\* the steps parse_amp_debug_logs can still take: the open, one per line
\* left, the end of the loop and the flush
ParserStepsLeft ==
    CASE pc = "open" -> Len(log) + 3
      [] pc = "scan" -> (Len(log) - pos) + 2
      [] pc = "flush" -> 1
      [] OTHER -> 0

\* the steps extract_thread_id can still take: the open, one per line left
\* and the end of the loop
ExtractorStepsLeft ==
    CASE xpc = "open" -> Len(log) + 2
      [] xpc = "scan" -> (Len(log) - xpos) + 1
      [] OTHER -> 0

\* every step uses up one of the steps left, so both calls end within
\* 2 * Len(log) + 5 steps
Terminates ==
    /\ ParserStepsLeft' + ExtractorStepsLeft'
           < ParserStepsLeft + ExtractorStepsLeft
    /\ ParserStepsLeft' >= 0
    /\ ExtractorStepsLeft' >= 0

\* a step reads at most the next line, never an earlier one, never opens the
\* file again, and nothing follows the flush
SinglePass ==
    /\ pos' \in {pos, pos + 1}
    /\ xpos' \in {xpos, xpos + 1}
    /\ pc # "open" => pc' # "open"
    /\ xpc # "open" => xpc' # "open"
    /\ pc' = "returned" => pc \in {"flush", "returned"}
    /\ pc = "returned" => pc' = "returned" /\ tool_calls' = tool_calls

\* parse_amp_debug_logs has read every line of a readable file when it
\* returns
ParserReadEveryLine == (pc = "returned" /\ readable) => pos = Len(log)

\* extract_thread_id stops at its first matching line or at the end of the
\* file
ExtractorStopsAtMatchOrEnd ==
    (xpc = "returned" /\ readable) =>
        \/ /\ xpos = Len(log)
           /\ \A q \in 1..(xpos - 1) : ~MatchesRule(log[q])
        \/ /\ xpos \in 1..Len(log)
           /\ MatchesRule(log[xpos])
           /\ \A q \in 1..(xpos - 1) : ~MatchesRule(log[q])

\* C19: for every finite file parse_amp_debug_logs terminates after reading
\* each line exactly once and flushing exactly once, and extract_thread_id
\* terminates at its first matching line or at the end of the file; neither
\* reads a line twice or opens the file again.
C19_SinglePassThenReturn ==
    /\ [][Terminates /\ SinglePass]_vars
    /\ [](ParserReadEveryLine /\ ExtractorStopsAtMatchOrEnd)

====
